---- MODULE Spec2Model ----
(***************************************************************************)
(* A model of the bg-manager applet (pstroka/bg-manager):                  *)
(*   src/src/unique.rs  the order-preserving deduplicating collector,      *)
(*   src/src/app.rs     the applet state, its message handlers and the     *)
(*                      palette computation of update_bg,                  *)
(*   src/src/config.rs  the applet's persisted configuration.              *)
(*                                                                         *)
(* Colours are triples of channels.  A channel is a fixed-point number:    *)
(* the integer k stands for k / Scale, so Scale is 1.0.  Channels are      *)
(* finite numbers in [0, 1]; NaN channels are outside the model.           *)
(***************************************************************************)
EXTENDS Integers, Sequences, FiniteSets, TLC

(***************************************************************************)
(* Bounds of the model.                                                    *)
(***************************************************************************)
\* the channel value that stands for 1.0
Scale == 100
\* longest input sequence given to collect_unique on its own
MaxLen == 4
\* number of distinct values in those input sequences
NumVals == 3
\* most stops of a gradient
MaxStops == 3
\* most wallpapers of one palette computation on its own
MaxBgs == 2
\* most user or external events (failures of the host included) of one run
MaxEnv == 1
\* popup messages in a run of the popup on its own
MaxPopupEvents == 4

(***************************************************************************)
(* Program constants: the factors of app.rs, in hundredths.                *)
(***************************************************************************)
Factor66 == 66
Factor33 == 33
MixHalf == 50

VARIABLES
    \* ---- collect_unique on its own (unique.rs)
    iter,        \* the input sequence
    vec,         \* collect_unique(iter)
    vec2,        \* collect_unique(vec)
    upc,         \* "idle" | "start" | "collected" | "recollected"
    \* ---- the palette computation on its own (app.rs 59-91)
    pBackgrounds, \* the wallpapers handed to the computation
    pRaw,         \* the flat_map result, before collect_unique
    pColors,      \* the collected palette
    ppc,          \* "idle" | "start" | "mapped" | "collected"
    \* ---- AppModel (app.rs 29-36)
    popup,          \* Option<Id>: 0 is None
    config_handler, \* Option<cosmic_config::Config>: TRUE is Some
    config,         \* Config: [enabled, dark, light]
    token_tx,       \* Option<Sender<TokenRequest>>: TRUE is Some
    colors,         \* Vec<Color>: the palette
    \* ---- the host the applet runs in
    nextId,         \* the next value of Id::unique() (1 is the main window)
    coreDark,       \* core.system_theme_mode().is_dark
    appStore,       \* the applet's persisted Config
    bgStore,        \* the persisted cosmic_bg_config::Config
    themeStore,     \* the persisted ThemeMode.is_dark
    qConfig,        \* undelivered ConfigUpdate payloads
    qBg,            \* undelivered BgUpdate payloads
    qTheme,         \* undelivered ThemeModeUpdate payloads
    qCore,          \* theme modes the runtime has not yet put into core
    \* ---- the run
    backgrounds,    \* the local `backgrounds` of the last update_bg
    writes,         \* the entries the last update_bg handed to set_entry, in order
    closed,         \* the id of the last PopupClosed (0: none yet)
    crashed,        \* "none", or the unwrap() that panicked
    last,           \* the step taken last
    budget          \* user and external events left

uvars == <<iter, vec, vec2, upc>>
pvars == <<pBackgrounds, pRaw, pColors, ppc>>
modelvars == <<popup, config_handler, config, token_tx, colors>>
hostvars == <<nextId, coreDark, appStore, bgStore, themeStore, qConfig, qBg, qTheme, qCore>>
runvars == <<backgrounds, writes, closed, crashed, last, budget>>
appvars == <<modelvars, hostvars, runvars>>
vars == <<uvars, pvars, appvars>>

(***************************************************************************)
(* unique.rs                                                               *)
(***************************************************************************)
\* Vec::contains: some element compares equal (PartialEq) to x
Contains(v, x) == \E k \in 1..Len(v) : v[k] = x

\* a collector that drops only the first duplicate it meets
RECURSIVE FromUniqueIterOnceFrom(_, _, _, _)
FromUniqueIterOnceFrom(it, k, acc, dropped) ==
    IF k > Len(it) THEN acc
    ELSE IF Contains(acc, it[k]) /\ ~dropped
         THEN FromUniqueIterOnceFrom(it, k + 1, acc, TRUE)
         ELSE FromUniqueIterOnceFrom(it, k + 1, Append(acc, it[k]), dropped)

FromUniqueIterOnce(it) == FromUniqueIterOnceFrom(it, 1, <<>>, FALSE)

\* a collector that keeps the last occurrence of each value, not the first
RECURSIVE FromUniqueIterLastFrom(_, _, _)
FromUniqueIterLastFrom(it, k, acc) ==
    IF k > Len(it) THEN acc
    ELSE IF \E j \in (k + 1)..Len(it) : it[j] = it[k]
         THEN FromUniqueIterLastFrom(it, k + 1, acc)
         ELSE FromUniqueIterLastFrom(it, k + 1, Append(acc, it[k]))

FromUniqueIterLast(it) == FromUniqueIterLastFrom(it, 1, <<>>)

\* a collector that does not deduplicate (plain collect)
FromUniqueIterPlain(it) == it

\* a collector that compares with the last pushed element only
RECURSIVE FromUniqueIterAdjacentFrom(_, _, _)
FromUniqueIterAdjacentFrom(it, k, acc) ==
    IF k > Len(it) THEN acc
    ELSE IF Len(acc) > 0 /\ acc[Len(acc)] = it[k]
         THEN FromUniqueIterAdjacentFrom(it, k + 1, acc)
         ELSE FromUniqueIterAdjacentFrom(it, k + 1, Append(acc, it[k]))

FromUniqueIterAdjacent(it) == FromUniqueIterAdjacentFrom(it, 1, <<>>)

\* the for_each of from_unique_iter from element k on, with accumulator acc
RECURSIVE FromUniqueIterFrom(_, _, _)
FromUniqueIterFrom(it, k, acc) ==
    IF k > Len(it) THEN acc
    ELSE IF ~Contains(acc, it[k])
         THEN FromUniqueIterFrom(it, k + 1, Append(acc, it[k]))
         ELSE FromUniqueIterFrom(it, k + 1, acc)

\* <Vec<A> as FromUniqueIterator<A>>::from_unique_iter
from_unique_iter(it) == FromUniqueIterFrom(it, 1, <<>>)

\* UniqueIterator::collect_unique
collect_unique(it) == from_unique_iter(it)

(***************************************************************************)
(* Colours and the palette arithmetic used by app.rs.                      *)
(***************************************************************************)
Black == <<0, 0, 0>>
White == <<Scale, Scale, Scale>>
Red   == <<Scale, 0, 0>>
Blue  == <<0, 0, Scale>>

Clamp(x) == IF x < 0 THEN 0 ELSE IF x > Scale THEN Scale ELSE x

\* one channel of Lighten::lighten(factor), factor >= 0 in hundredths:
\* the channel moves towards 1.0 by factor of its distance to 1.0
LightenChannel(x, f) ==
    LET difference == IF Scale - x > 0 THEN Scale - x ELSE 0
    IN  Clamp(x + (difference * f) \div 100)

\* one channel of Darken::darken(factor) = lighten(-factor):
\* the channel moves towards 0.0 by factor of its own value
DarkenChannel(x, f) ==
    LET difference == IF x > 0 THEN x ELSE 0
    IN  Clamp(x - (difference * f) \div 100)

lighten(c, f) == <<LightenChannel(c[1], f), LightenChannel(c[2], f), LightenChannel(c[3], f)>>
darken(c, f)  == <<DarkenChannel(c[1], f), DarkenChannel(c[2], f), DarkenChannel(c[3], f)>>

\* a mix that adds the scaled other colour instead of the scaled difference
mixNoDifference(l, r, f) ==
    <<l[1] + (r[1] * f) \div 100, l[2] + (r[2] * f) \div 100, l[3] + (r[3] * f) \div 100>>

\* one channel of Mix::mix(other, factor): l + (r - l) * factor
MixChannel(l, r, f) ==
    IF r >= l THEN l + ((r - l) * f) \div 100
              ELSE l - ((l - r) * f) \div 100

mix(l, r, f) == <<MixChannel(l[1], r[1], f), MixChannel(l[2], r[2], f), MixChannel(l[3], r[3], f)>>

(***************************************************************************)
(* Wallpaper sources (cosmic_bg_config::Source) and entries.               *)
(***************************************************************************)
PathSource(p)      == [kind |-> "Path", path |-> p, color |-> Black, colors |-> <<>>]
SingleSource(c)    == [kind |-> "Single", path |-> "", color |-> c, colors |-> <<>>]
GradientSource(cs) == [kind |-> "Gradient", path |-> "", color |-> Black, colors |-> cs]

Entry(o, s) == [output |-> o, source |-> s]

\* load_image_with_thumbnail followed by the dominant-colour clustering:
\* <<>> stands for None (the image could not be loaded)
ImagePaths == {"missing", "img"}
DominantOf(path) == IF path = "img" THEN <<Red, Black>> ELSE <<>>
ImageLoads(path) == path = "img"

\* dominant_colors
dominant_colors(path) == IF ImageLoads(path) THEN DominantOf(path) ELSE <<>>

\* the Color::Single arm in another order (dark to light)
SingleColorsReversed(c) ==
    <<darken(c, Factor66), darken(c, Factor33), lighten(c, Factor33), lighten(c, Factor66)>>

\* the Color::Single arm of update_bg
SingleColors(c) ==
    <<lighten(c, Factor66), lighten(c, Factor33), darken(c, Factor33), darken(c, Factor66)>>

\* a reduction from the right: c1 mix (c2 mix (... mix cn))
RECURSIVE ReduceMixRight(_)
ReduceMixRight(cs) ==
    IF Len(cs) = 1 THEN cs[1] ELSE mix(cs[1], ReduceMixRight(Tail(cs)), MixHalf)

\* Iterator::reduce(|l, r| l.mix(r, 0.5)) with accumulator acc over cs[k..]
RECURSIVE ReduceMixFrom(_, _, _)
ReduceMixFrom(cs, k, acc) ==
    IF k > Len(cs) THEN acc ELSE ReduceMixFrom(cs, k + 1, mix(acc, cs[k], MixHalf))

\* a gradient arm that reduces from the right
GradientColorsRight(cs) ==
    IF Len(cs) = 0 THEN cs ELSE Append(cs, ReduceMixRight(cs))

\* a gradient arm that pushes the mix only when there is something to mix
GradientColorsNoSingle(cs) ==
    IF Len(cs) <= 1 THEN cs ELSE Append(cs, ReduceMixFrom(cs, 2, cs[1]))

\* the Color::Gradient arm of update_bg: the stops, then the reduction if Some
GradientColors(cs) ==
    IF Len(cs) = 0 THEN cs ELSE Append(cs, ReduceMixFrom(cs, 2, cs[1]))

\* the flat_map closure of update_bg: one wallpaper's contribution
Contribution(e) ==
    CASE e.source.kind = "Path"     -> dominant_colors(e.source.path)
      [] e.source.kind = "Single"   -> SingleColors(e.source.color)
      [] e.source.kind = "Gradient" -> GradientColors(e.source.colors)

\* a flat_map that gives up at the first image that fails to load
RECURSIVE FlatMapUntilFailure(_, _)
FlatMapUntilFailure(bgs, k) ==
    IF k > Len(bgs) THEN <<>>
    ELSE IF bgs[k].source.kind = "Path" /\ ~ImageLoads(bgs[k].source.path) THEN <<>>
    ELSE Contribution(bgs[k]) \o FlatMapUntilFailure(bgs, k + 1)

\* backgrounds.iter().flat_map(closure), from wallpaper k on
RECURSIVE FlatMapFrom(_, _)
FlatMapFrom(bgs, k) ==
    IF k > Len(bgs) THEN <<>> ELSE Contribution(bgs[k]) \o FlatMapFrom(bgs, k + 1)

FlatMap(bgs) == FlatMapFrom(bgs, 1)

\* the value update_bg assigns to self.colors
PaletteOf(bgs) == collect_unique(FlatMap(bgs))

(***************************************************************************)
(* The background configuration (cosmic_bg_config::Config) as update_bg    *)
(* uses it, and the applet's Config (config.rs 13-17).                     *)
(***************************************************************************)
OutputNames == <<"o1", "o2", "o3", "o4">>
\* the outputs that have a wallpaper of their own, beside the default "all"
PerOutputs == {"o1", "o2"}
\* the sources a wallpaper is changed to from outside the applet
ExternalSources == {SingleSource(Black), PathSource("img")}

BgConfig(same, def, bgs) ==
    [same_on_all |-> same, default_background |-> def, backgrounds |-> bgs]
AppConfig(en, dk, lt) == [enabled |-> en, dark |-> dk, light |-> lt]

\* Config::default()
DefaultConfig == AppConfig(FALSE, <<>>, <<>>)

\* config.set_entry(&context, e): the entry of output "all" is the default
\* background, any other replaces the entry of its output or is pushed
set_entry(cfg, e) ==
    IF e.output = "all"
    THEN [cfg EXCEPT !.default_background = e]
    ELSE IF \E k \in 1..Len(cfg.backgrounds) : cfg.backgrounds[k].output = e.output
         THEN [cfg EXCEPT !.backgrounds =
                  [k \in 1..Len(cfg.backgrounds) |->
                      IF cfg.backgrounds[k].output = e.output THEN e
                      ELSE cfg.backgrounds[k]]]
         ELSE [cfg EXCEPT !.backgrounds = Append(cfg.backgrounds, e)]

\* entries.iter().for_each(|e| config.set_entry(..)) over entries[k..n]
RECURSIVE SetEntriesFrom(_, _, _, _)
SetEntriesFrom(cfg, entries, k, n) ==
    IF k > n THEN cfg ELSE SetEntriesFrom(set_entry(cfg, entries[k]), entries, k + 1, n)

\* a variant that writes the entries of the requested mode whether enabled or not
EntriesToWriteAlways(cfg, is_dark) == IF is_dark THEN cfg.dark ELSE cfg.light

\* the entries update_bg writes: those of the requested mode, when enabled
EntriesToWrite(cfg, is_dark) ==
    IF cfg.enabled THEN (IF is_dark THEN cfg.dark ELSE cfg.light) ELSE <<>>

\* a variant that takes the default background and the per-output ones together
BackgroundsOfAll(cfg) == <<cfg.default_background>> \o cfg.backgrounds

\* let backgrounds = if config.same_on_all { vec![default] } else { backgrounds }
BackgroundsOf(cfg) ==
    IF cfg.same_on_all THEN <<cfg.default_background>> ELSE cfg.backgrounds

\* self.colors = backgrounds.iter().flat_map(..).collect_unique()
AssignColors(old, bgs) == PaletteOf(bgs)

\* the payload of a BgUpdate: the entries of the background configuration,
\* the default background first (as Config::load lists them)
BgOf(cfg) == <<cfg.default_background>> \o cfg.backgrounds

\* what the watcher of the background configuration delivers: the entries, and
\* (for the properties) who made the change: update_bg called for dark mode
\* ("dark"), for light mode ("light"), or somebody outside the applet
BgNotice(cfg, by) == [entries |-> BgOf(cfg), by |-> by]
AppliedBy(is_dark) == IF is_dark THEN "dark" ELSE "light"

(***************************************************************************)
(* Initial states: AppModel::init, with every watcher of subscription()    *)
(* about to deliver the value it starts with.                              *)
(***************************************************************************)
InitBgStores ==
    {BgConfig(TRUE, Entry("all", SingleSource(Red)), <<>>),
     BgConfig(FALSE, Entry("all", GradientSource(<<Blue, Blue>>)),
              <<Entry("o1", PathSource("missing")), Entry("o2", SingleSource(Red))>>)}

InitAppStores ==
    {DefaultConfig,
     AppConfig(TRUE, <<Entry("all", GradientSource(<<Blue, Blue>>))>>,
               <<Entry("all", SingleSource(Red)), Entry("o1", SingleSource(Red))>>)}

UIdle == iter = <<>> /\ vec = <<>> /\ vec2 = <<>> /\ upc = "idle"
PIdle == pBackgrounds = <<>> /\ pRaw = <<>> /\ pColors = <<>> /\ ppc = "idle"

InitBudget(events) ==
    /\ UIdle /\ PIdle
    /\ popup = 0
    /\ config_handler \in BOOLEAN
    /\ appStore \in InitAppStores
    /\ config = IF config_handler THEN appStore ELSE DefaultConfig
    /\ token_tx = FALSE
    /\ colors = <<>>
    /\ nextId = 2
    /\ themeStore \in BOOLEAN
    /\ coreDark = themeStore
    /\ bgStore \in InitBgStores
    /\ qConfig = <<appStore>>
    /\ qBg = <<BgNotice(bgStore, "outside")>>
    /\ qTheme = <<themeStore>>
    /\ qCore = <<>>
    /\ backgrounds = <<>>
    /\ writes = <<>>
    /\ closed = 0
    /\ crashed = "none"
    /\ last = "init"
    /\ budget = events

Init == InitBudget(MaxEnv)

\* the applet is not running (the pure computations are checked on their own)
AppIdle ==
    /\ popup = 0 /\ config_handler = FALSE /\ config = DefaultConfig
    /\ token_tx = FALSE /\ colors = <<>> /\ nextId = 1 /\ coreDark = FALSE
    /\ appStore = DefaultConfig
    /\ bgStore = BgConfig(TRUE, Entry("all", SingleSource(Black)), <<>>)
    /\ themeStore = FALSE
    /\ qConfig = <<>> /\ qBg = <<>> /\ qTheme = <<>> /\ qCore = <<>>
    /\ backgrounds = <<>> /\ writes = <<>> /\ closed = 0
    /\ crashed = "none" /\ last = "idle" /\ budget = 0

Running == crashed = "none"

(***************************************************************************)
(* A panic: an unwrap() on a failure ends the process.  What the process   *)
(* held in memory is gone (the fields take their empty values); what it    *)
(* had persisted stays.  site names the unwrap(), step the handler.        *)
(***************************************************************************)
Panic(site, step) ==
    /\ crashed' = site
    /\ last' = step
    /\ popup' = 0 /\ config_handler' = FALSE /\ config' = DefaultConfig
    /\ token_tx' = FALSE /\ colors' = <<>> /\ nextId' = 1 /\ coreDark' = FALSE
    /\ qConfig' = <<>> /\ qBg' = <<>> /\ qTheme' = <<>> /\ qCore' = <<>>
    /\ backgrounds' = <<>> /\ closed' = 0 /\ budget' = 0
    /\ UNCHANGED <<uvars, pvars>>

(***************************************************************************)
(* AppModel::update_bg (app.rs 39-92) on the applet's Config cfg, the      *)
(* stored background configuration store and the palette old.  fail names  *)
(* the unwrap() that panics in this call ("none": no failure), failAt the  *)
(* entry whose set_entry fails.  The result: the unwrap() that panicked,   *)
(* the background configuration as written, the entries handed to          *)
(* set_entry, the local backgrounds and the new self.colors.               *)
(***************************************************************************)
FailureSites == {"none", "context", "load", "set_entry"}

update_bg(cfg, is_dark, store, old, fail, failAt) ==
    LET entries == EntriesToWrite(cfg, is_dark)
        written == IF fail = "set_entry" THEN failAt - 1 ELSE Len(entries)
        local   == SetEntriesFrom(store, entries, 1, written)
        bgs     == BackgroundsOf(local)
    IN  IF fail \in {"context", "load"}
        THEN [panic |-> fail, store |-> store, writes |-> <<>>,
              backgrounds |-> <<>>, colors |-> old]
        ELSE IF fail = "set_entry"
        THEN [panic |-> fail, store |-> local, writes |-> SubSeq(entries, 1, written),
              backgrounds |-> <<>>, colors |-> old]
        ELSE [panic |-> "none", store |-> local, writes |-> entries,
              backgrounds |-> bgs, colors |-> AssignColors(old, bgs)]

\* the failures one call of update_bg can meet: a failure of the host is an
\* external event
Failures(cfg, is_dark) ==
    {<<"none", 1>>}
    \cup (IF budget > 0
          THEN {<<f, 1>> : f \in {"context", "load"}}
               \cup {<<"set_entry", k>> : k \in 1..Len(EntriesToWrite(cfg, is_dark))}
          ELSE {})

\* whether a write of the host may fail now
MayFail == {TRUE} \cup (IF budget > 0 THEN {FALSE} ELSE {})

\* the rest of a handler that called update_bg with result r
AfterUpdateBg(r, is_dark, step) ==
    /\ bgStore' = r.store
    /\ writes' = r.writes
    /\ IF r.panic # "none"
       THEN /\ Panic(r.panic, step)
            /\ UNCHANGED <<appStore, themeStore>>
       ELSE /\ qBg' = IF r.store # bgStore
                      THEN Append(qBg, BgNotice(r.store, AppliedBy(is_dark)))
                      ELSE qBg
            /\ backgrounds' = r.backgrounds
            /\ colors' = r.colors
            /\ last' = step
            /\ UNCHANGED <<uvars, pvars, popup, config_handler, token_tx, nextId,
                           coreDark, appStore, themeStore, qCore, closed, crashed,
                           budget>>

(***************************************************************************)
(* AppModel::update (app.rs 215-316), one action per message.              *)
(***************************************************************************)
\* Message::ConfigUpdate(config)
ConfigUpdate ==
    /\ Running
    /\ qConfig # <<>>
    /\ \E f \in Failures(Head(qConfig), coreDark) :
          LET r == update_bg(Head(qConfig), coreDark, bgStore, colors, f[1], f[2])
          IN  /\ AfterUpdateBg(r, coreDark, "ConfigUpdate")
              /\ r.panic = "none" =>
                    /\ config' = Head(qConfig)
                    /\ qConfig' = Tail(qConfig)
                    /\ UNCHANGED qTheme

\* Message::ThemeModeUpdate(theme_mode)
ThemeModeUpdate ==
    /\ Running
    /\ qTheme # <<>>
    /\ \E f \in Failures(config, Head(qTheme)) :
          LET r == update_bg(config, Head(qTheme), bgStore, colors, f[1], f[2])
          IN  /\ AfterUpdateBg(r, Head(qTheme), "ThemeModeUpdate")
              /\ r.panic = "none" =>
                    /\ qTheme' = Tail(qTheme)
                    /\ UNCHANGED <<config, qConfig>>

\* self.config.set_dark / set_light / set_enabled (handler.unwrap(), ..).unwrap():
\* the field and the stored key take the value; the watcher reports a change
StoreConfig(newConfig, newStore, ok, step) ==
    IF ~config_handler
    THEN Panic("config_handler", step)
         /\ UNCHANGED <<appStore, bgStore, themeStore, writes>>
    ELSE IF ~ok
    THEN Panic("set_config", step)
         /\ UNCHANGED <<appStore, bgStore, themeStore, writes>>
    ELSE /\ config' = newConfig
         /\ appStore' = newStore
         /\ qConfig' = IF newStore # appStore THEN Append(qConfig, newStore) ELSE qConfig
         /\ last' = step
         /\ UNCHANGED <<uvars, pvars, popup, config_handler, token_tx, colors, nextId,
                        coreDark, bgStore, themeStore, qTheme, qCore, backgrounds, writes, closed,
                        crashed>>

\* a handler that changes nothing but its own bookkeeping
Unchanged(step) ==
    /\ last' = step
    /\ UNCHANGED <<uvars, pvars, modelvars, nextId, coreDark, appStore, bgStore,
                   themeStore, qConfig, qTheme, qCore, backgrounds, writes, closed, crashed>>

\* a variant that asks the persisted theme mode, not the core
persisted_theme_mode == themeStore

\* self.core.system_theme_mode().is_dark
system_theme_mode == coreDark

\* Message::BgUpdate(config)
BgUpdate ==
    /\ Running
    /\ qBg # <<>>
    /\ LET entries == Head(qBg).entries
           is_dark == system_theme_mode
       IN  IF entries = <<>>
           THEN Unchanged("BgUpdate") /\ qBg' = Tail(qBg) /\ UNCHANGED budget
           ELSE IF is_dark /\ entries # config.dark
           THEN \E ok \in MayFail :
                   /\ StoreConfig([config EXCEPT !.dark = entries],
                                  [appStore EXCEPT !.dark = entries], ok, "BgUpdate")
                   /\ crashed' = "none" => qBg' = Tail(qBg) /\ UNCHANGED budget
           ELSE IF ~is_dark /\ entries # config.light
           THEN \E ok \in MayFail :
                   /\ StoreConfig([config EXCEPT !.light = entries],
                                  [appStore EXCEPT !.light = entries], ok, "BgUpdate")
                   /\ crashed' = "none" => qBg' = Tail(qBg) /\ UNCHANGED budget
           ELSE Unchanged("BgUpdate") /\ qBg' = Tail(qBg) /\ UNCHANGED budget

\* Message::Toggle(toggled)
Toggle ==
    /\ Running
    /\ budget > 0
    /\ \E toggled \in BOOLEAN, ok \in MayFail :
          IF config_handler /\ config.enabled = toggled
          THEN ok /\ Unchanged("Toggle") /\ UNCHANGED qBg /\ budget' = budget - 1
          ELSE /\ StoreConfig([config EXCEPT !.enabled = toggled],
                              [appStore EXCEPT !.enabled = toggled], ok, "Toggle")
               /\ crashed' = "none" => UNCHANGED qBg /\ budget' = budget - 1

\* Message::TogglePopup
TogglePopup ==
    /\ Running
    /\ budget > 0
    /\ IF popup # 0
       THEN popup' = 0 /\ UNCHANGED nextId
       ELSE popup' = nextId /\ nextId' = nextId + 1
    /\ last' = "TogglePopup"
    /\ budget' = budget - 1
    /\ UNCHANGED <<uvars, pvars, config_handler, config, token_tx, colors, coreDark,
                   appStore, bgStore, themeStore, qConfig, qBg, qTheme, qCore,
                   backgrounds, writes, closed, crashed>>

\* a variant that forgets the tracked popup whatever window was closed
AfterCloseAny(tracked, id) == 0

\* if self.popup.as_ref() == Some(&id) { self.popup = None; }
AfterClose(tracked, id) == IF tracked = id THEN 0 ELSE tracked

\* Message::PopupClosed(id), from on_close_requested, for any window id handed out
PopupClosed ==
    /\ Running
    /\ budget > 0
    /\ \E id \in 1..(nextId - 1) :
          /\ popup' = AfterClose(popup, id)
          /\ closed' = id
    /\ last' = "PopupClosed"
    /\ budget' = budget - 1
    /\ UNCHANGED <<uvars, pvars, config_handler, config, token_tx, colors, nextId,
                   coreDark, appStore, bgStore, themeStore, qConfig, qBg, qTheme, qCore,
                   backgrounds, writes, crashed>>

\* a change of the persisted theme mode reaches the runtime and the applet's watcher
WriteThemeMode(is_dark) ==
    IF is_dark = themeStore
    THEN UNCHANGED <<themeStore, qTheme, qCore>>
    ELSE /\ themeStore' = is_dark
         /\ qTheme' = Append(qTheme, is_dark)
         /\ qCore' = Append(qCore, is_dark)

\* Message::OpenSettings(is_dark)
OpenSettings ==
    /\ Running
    /\ budget > 0
    /\ \E is_dark \in BOOLEAN, ok \in MayFail :
          IF ok
          THEN /\ WriteThemeMode(is_dark)
               /\ last' = "OpenSettings"
               /\ budget' = budget - 1
               /\ UNCHANGED <<uvars, pvars, modelvars, nextId, coreDark, appStore,
                              bgStore, qConfig, qBg, backgrounds, writes, closed, crashed>>
          ELSE /\ Panic("theme_mode", "OpenSettings")
               /\ UNCHANGED <<appStore, bgStore, themeStore, writes>>

\* Message::Token(TokenUpdate)
Token ==
    /\ Running
    /\ budget > 0
    /\ \E u \in {"Init", "Finished", "ActivationToken"} :
          token_tx' = CASE u = "Init" -> TRUE
                        [] u = "Finished" -> FALSE
                        [] OTHER -> token_tx
    /\ last' = "Token"
    /\ budget' = budget - 1
    /\ UNCHANGED <<uvars, pvars, popup, config_handler, config, colors, hostvars,
                   backgrounds, writes, closed, crashed>>

\* Message::ChangeAccentColor(color), from a swatch of the palette
ChangeAccentColor ==
    /\ Running
    /\ budget > 0
    /\ \E k \in 1..Len(colors), ok \in MayFail :
          IF ok
          THEN /\ last' = "ChangeAccentColor"
               /\ budget' = budget - 1
               /\ UNCHANGED <<uvars, pvars, modelvars, hostvars, backgrounds, writes,
                              closed, crashed>>
          ELSE /\ Panic("theme", "ChangeAccentColor")
               /\ UNCHANGED <<appStore, bgStore, themeStore, writes>>

(***************************************************************************)
(* The host: the runtime's own theme-mode watcher, and changes made        *)
(* outside the applet.                                                     *)
(***************************************************************************)
\* the runtime stores a changed theme mode in core
CoreThemeMode ==
    /\ Running
    /\ qCore # <<>>
    /\ coreDark' = Head(qCore)
    /\ qCore' = Tail(qCore)
    /\ last' = "CoreThemeMode"
    /\ UNCHANGED <<uvars, pvars, modelvars, nextId, appStore, bgStore, themeStore,
                   qConfig, qBg, qTheme, backgrounds, writes, closed, crashed, budget>>

\* the theme mode is changed outside the applet
ExternalThemeMode ==
    /\ Running
    /\ budget > 0
    /\ WriteThemeMode(~themeStore)
    /\ last' = "ExternalThemeMode"
    /\ budget' = budget - 1
    /\ UNCHANGED <<uvars, pvars, modelvars, nextId, coreDark, appStore, bgStore,
                   qConfig, qBg, backgrounds, writes, closed, crashed>>

\* a wallpaper is changed outside the applet (the settings application)
ExternalSetEntry ==
    /\ Running
    /\ budget > 0
    /\ \E o \in {"all"} \cup PerOutputs, src \in ExternalSources :
          /\ bgStore' = set_entry(bgStore, Entry(o, src))
          /\ bgStore' # bgStore
          /\ qBg' = Append(qBg, BgNotice(bgStore', "outside"))
    /\ last' = "ExternalSetEntry"
    /\ budget' = budget - 1
    /\ UNCHANGED <<uvars, pvars, modelvars, nextId, coreDark, appStore, themeStore,
                   qConfig, qTheme, qCore, backgrounds, writes, closed, crashed>>

\* same_on_all is changed outside the applet
ExternalSameOnAll ==
    /\ Running
    /\ budget > 0
    /\ bgStore' = [bgStore EXCEPT !.same_on_all = ~bgStore.same_on_all]
    /\ last' = "ExternalSameOnAll"
    /\ budget' = budget - 1
    /\ UNCHANGED <<uvars, pvars, modelvars, nextId, coreDark, appStore, themeStore,
                   qConfig, qBg, qTheme, qCore, backgrounds, writes, closed, crashed>>

Next ==
    \/ ConfigUpdate
    \/ ThemeModeUpdate
    \/ BgUpdate
    \/ Toggle
    \/ TogglePopup
    \/ PopupClosed
    \/ OpenSettings
    \/ Token
    \/ ChangeAccentColor
    \/ CoreThemeMode
    \/ ExternalThemeMode
    \/ ExternalSetEntry
    \/ ExternalSameOnAll

Spec == Init /\ [][Next]_vars

\* The runtime hands every message of a subscription to update, and takes
\* every theme mode its own watcher reports: a delivery that stays possible
\* happens.  Nothing obliges the user or the outside to act.
\* ConfigUpdate and ThemeModeUpdate can be taken exactly when the applet runs
\* and their queue holds a message (update_bg always has its run without a
\* failure); their weak fairness is written out with that condition.
Delivered ==
    /\ WF_vars(BgUpdate)
    /\ WF_vars(CoreThemeMode)
    /\ ([]<>(~(Running /\ qConfig # <<>>)) \/ []<><<ConfigUpdate>>_vars)
    /\ ([]<>(~(Running /\ qTheme # <<>>)) \/ []<><<ThemeModeUpdate>>_vars)

FairSpec == Spec /\ Delivered

(***************************************************************************)
(* The popup on its own: up to MaxPopupEvents messages TogglePopup and     *)
(* PopupClosed, from every initial state of the applet.                    *)
(***************************************************************************)
InitPopup == InitBudget(MaxPopupEvents)

NextPopup == TogglePopup \/ PopupClosed

SpecPopup == InitPopup /\ [][NextPopup]_vars

(***************************************************************************)
(* collect_unique on its own: every input sequence up to MaxLen.           *)
(***************************************************************************)
UVals == 1..NumVals
UInputs == UNION {[1..n -> UVals] : n \in 0..MaxLen}

InitUnique ==
    /\ iter \in UInputs
    /\ vec = <<>>
    /\ vec2 = <<>>
    /\ upc = "start"
    /\ PIdle
    /\ AppIdle

\* iter.collect_unique()
CollectUnique ==
    /\ upc = "start"
    /\ vec' = collect_unique(iter)
    /\ upc' = "collected"
    /\ UNCHANGED <<iter, vec2, pvars, appvars>>

\* the result collected once more
CollectAgain ==
    /\ upc = "collected"
    /\ vec2' = collect_unique(vec)
    /\ upc' = "recollected"
    /\ UNCHANGED <<iter, vec, pvars, appvars>>

NextUnique == CollectUnique \/ CollectAgain

SpecUnique == InitUnique /\ [][NextUnique]_vars

(***************************************************************************)
(* The palette computation of update_bg on its own (app.rs 59-91): every   *)
(* list of up to MaxBgs wallpapers over the sources below.                 *)
(***************************************************************************)
StopColors == {Red, Blue}
SingleBases == {Black, White, Red, Blue}
Gradients == UNION {[1..n -> StopColors] : n \in 0..MaxStops}
PSources ==
    {PathSource(p) : p \in ImagePaths}
    \cup {SingleSource(c) : c \in SingleBases}
    \cup {GradientSource(cs) : cs \in Gradients}
PInputs ==
    UNION {{[k \in 1..n |-> Entry(OutputNames[k], f[k])] : f \in [1..n -> PSources]}
           : n \in 0..MaxBgs}

InitPalette ==
    /\ pBackgrounds \in PInputs
    /\ pRaw = <<>>
    /\ pColors = <<>>
    /\ ppc = "start"
    /\ UIdle
    /\ AppIdle

\* backgrounds.iter().flat_map(..): the contributions, concatenated
PaletteMap ==
    /\ ppc = "start"
    /\ pRaw' = FlatMap(pBackgrounds)
    /\ ppc' = "mapped"
    /\ UNCHANGED <<pBackgrounds, pColors, uvars, appvars>>

\* .collect_unique(): the value assigned to self.colors
PaletteCollect ==
    /\ ppc = "mapped"
    /\ pColors' = PaletteOf(pBackgrounds)
    /\ ppc' = "collected"
    /\ UNCHANGED <<pBackgrounds, pRaw, uvars, appvars>>

NextPalette == PaletteMap \/ PaletteCollect

SpecPalette == InitPalette /\ [][NextPalette]_vars

(***************************************************************************)
(* Helpers of the properties.                                              *)
(***************************************************************************)
NoDuplicates(s) == \A a, b \in 1..Len(s) : a # b => s[a] # s[b]
Elements(s) == {s[k] : k \in 1..Len(s)}
FirstIndex(s, x) == CHOOSE k \in 1..Len(s) : s[k] = x /\ \A j \in 1..(k - 1) : s[j] # x
\* ((c1 mix c2) mix c3) ... mix cn, for n >= 1
LeftToRightMix(cs) ==
    LET acc[k \in 1..Len(cs)] ==
            IF k = 1 THEN cs[1] ELSE mix(acc[k - 1], cs[k], MixHalf)
    IN  acc[Len(cs)]
ChannelwiseGeq(c, d) == c[1] >= d[1] /\ c[2] >= d[2] /\ c[3] >= d[3]

(***************************************************************************)
(* C2: for any input sequence, collect_unique returns the sequence of      *)
(* first occurrences: no two equal elements in the output, every value of  *)
(* the input in the output, every output element a value of the input,     *)
(* and the output ordered by the position of first occurrence in the input.*)
(***************************************************************************)
C2_FirstOccurrences ==
    upc \in {"collected", "recollected"} =>
        /\ NoDuplicates(vec)
        /\ Elements(vec) = Elements(iter)
        /\ \A a, b \in 1..Len(vec) :
              a < b => FirstIndex(iter, vec[a]) < FirstIndex(iter, vec[b])

C2_Witness ==
    /\ upc = "collected"
    /\ Len(iter) >= 4
    /\ iter[1] # iter[2] /\ iter[3] = iter[1] /\ iter[4] = iter[2]
    /\ vec = <<iter[1], iter[2]>>

(***************************************************************************)
(* C3: collect_unique is idempotent: collecting the collected sequence     *)
(* once more gives the same sequence.                                      *)
(***************************************************************************)
C3_Idempotent == upc = "recollected" => vec2 = vec

C3_Witness ==
    /\ upc = "recollected"
    /\ Len(iter) >= 3
    /\ Len(vec) < Len(iter) - 1
    /\ vec2 = vec

(***************************************************************************)
(* C4: a Gradient wallpaper with stops c1..cn contributes the stops in     *)
(* stored order followed, when n >= 1, by the left-to-right pairwise 50/50 *)
(* mix ((c1 mix c2) mix c3) ... mix cn; nothing when n = 0; length n + 1   *)
(* when n >= 1.                                                            *)
(***************************************************************************)
C4_GradientContribution ==
    (ppc \in {"mapped", "collected"} /\ Len(pBackgrounds) = 1
        /\ pBackgrounds[1].source.kind = "Gradient") =>
        LET cs == pBackgrounds[1].source.colors
            n == Len(cs)
        IN  /\ n = 0 => pRaw = <<>>
            /\ n >= 1 => /\ Len(pRaw) = n + 1
                         /\ \A k \in 1..n : pRaw[k] = cs[k]
                         /\ pRaw[n + 1] = LeftToRightMix(cs)
            /\ n = 1 => pRaw = <<cs[1], cs[1]>>
            /\ n = 2 => pRaw = <<cs[1], cs[2], mix(cs[1], cs[2], MixHalf)>>

C4_Witness ==
    /\ ppc = "mapped"
    /\ Len(pBackgrounds) = 1
    /\ pBackgrounds[1].source.kind = "Gradient"
    /\ Len(pBackgrounds[1].source.colors) = 3
    /\ pBackgrounds[1].source.colors[1] = pBackgrounds[1].source.colors[2]
    /\ pBackgrounds[1].source.colors[1] # pBackgrounds[1].source.colors[3]
    /\ Len(pRaw) = 4
    /\ pRaw[4] = mix(pBackgrounds[1].source.colors[1], pBackgrounds[1].source.colors[3], MixHalf)

(***************************************************************************)
(* C5: a Single(c) wallpaper contributes exactly 4 colours, in the order   *)
(* lighten(c,0.66), lighten(c,0.33), darken(c,0.33), darken(c,0.66), for   *)
(* every c; no channel grows along the list (light to dark).               *)
(***************************************************************************)
C5_SingleContribution ==
    (ppc \in {"mapped", "collected"} /\ Len(pBackgrounds) = 1
        /\ pBackgrounds[1].source.kind = "Single") =>
        LET c == pBackgrounds[1].source.color
        IN  /\ Len(pRaw) = 4
            /\ pRaw[1] = lighten(c, Factor66)
            /\ pRaw[2] = lighten(c, Factor33)
            /\ pRaw[3] = darken(c, Factor33)
            /\ pRaw[4] = darken(c, Factor66)
            /\ \A k \in 1..3 : ChannelwiseGeq(pRaw[k], pRaw[k + 1])

C5_Witness ==
    /\ ppc = "mapped"
    /\ Len(pBackgrounds) = 1
    /\ pBackgrounds[1].source = SingleSource(Red)
    /\ Len(pRaw) = 4
    /\ NoDuplicates(pRaw)

(***************************************************************************)
(* C9 as stated: two wallpapers that are both Single(c) for the same c     *)
(* give a palette of exactly the 4 colours of the contribution of one.     *)
(***************************************************************************)
C9_AsStated ==
    (ppc = "collected" /\ Len(pBackgrounds) = 2
        /\ pBackgrounds[1].source.kind = "Single"
        /\ pBackgrounds[2].source = pBackgrounds[1].source) =>
        /\ Len(pColors) = 4
        /\ pColors = SingleColors(pBackgrounds[1].source.color)

(***************************************************************************)
(* C9 amended: two wallpapers that are both Single(c) contribute the same  *)
(* 4-element list twice (8 raw colours) and the palette is that list       *)
(* without its repeats, in first-occurrence order: never more than 4       *)
(* colours, exactly the 4 tints when they are pairwise distinct, fewer     *)
(* when tints of c collide.  In general a wallpaper whose source equals    *)
(* the earlier wallpaper's source adds no entries to the palette.          *)
(***************************************************************************)
C9_RepeatedSourceAddsNothing ==
    (ppc = "collected" /\ Len(pBackgrounds) = 2
        /\ pBackgrounds[2].source = pBackgrounds[1].source) =>
        LET one == Contribution(pBackgrounds[1])
        IN  /\ pRaw = one \o one
            /\ NoDuplicates(pColors)
            /\ Elements(pColors) = Elements(one)
            /\ \A a, b \in 1..Len(pColors) :
                  a < b => FirstIndex(one, pColors[a]) < FirstIndex(one, pColors[b])
            /\ pBackgrounds[1].source.kind = "Single" =>
                  /\ Len(one) = 4 /\ Len(pRaw) = 8 /\ Len(pColors) <= 4
                  /\ NoDuplicates(one) => pColors = one

C9_Witness ==
    /\ ppc = "collected"
    /\ Len(pBackgrounds) = 2
    /\ pBackgrounds[1].source = SingleSource(Red)
    /\ pBackgrounds[2].source = SingleSource(Red)
    /\ Len(pRaw) = 8
    /\ Len(pColors) = 4

(***************************************************************************)
(* C10: one wallpaper Gradient([b, b]) contributes [b, b, b] and the       *)
(* palette is [b]; in general a gradient whose (one or more) stops are all *)
(* the colour b contributes the stops and b once more, and the palette is  *)
(* [b].                                                                    *)
(***************************************************************************)
C10_UniformGradient ==
    (ppc = "collected" /\ Len(pBackgrounds) = 1
        /\ pBackgrounds[1].source.kind = "Gradient"
        /\ Len(pBackgrounds[1].source.colors) >= 1
        /\ \A k \in 1..Len(pBackgrounds[1].source.colors) :
              pBackgrounds[1].source.colors[k] = pBackgrounds[1].source.colors[1]) =>
        LET cs == pBackgrounds[1].source.colors
            b == cs[1]
        IN  /\ pRaw = Append(cs, b)
            /\ Len(cs) = 2 => pRaw = <<b, b, b>>
            /\ pColors = <<b>>

C10_Witness ==
    /\ ppc = "collected"
    /\ Len(pBackgrounds) = 1
    /\ pBackgrounds[1].source = GradientSource(<<Blue, Blue>>)
    /\ pRaw = <<Blue, Blue, Blue>>
    /\ pColors = <<Blue>>

(***************************************************************************)
(* Helpers of the properties of the running applet.                        *)
(***************************************************************************)
Recomputed == last \in {"ConfigUpdate", "ThemeModeUpdate"} /\ crashed = "none"
FailsToLoad(e) == e.source.kind = "Path" /\ ~ImageLoads(e.source.path)
\* s without the elements at the positions in drop
RECURSIVE Without(_, _, _)
Without(s, k, drop) ==
    IF k > Len(s) THEN <<>>
    ELSE IF k \in drop THEN Without(s, k + 1, drop)
    ELSE <<s[k]>> \o Without(s, k + 1, drop)
\* the concatenated contributions of the wallpapers bgs, no operator of the
\* palette computation used but the contribution of one wallpaper
RECURSIVE Concatenated(_, _)
Concatenated(bgs, k) ==
    IF k > Len(bgs) THEN <<>> ELSE Contribution(bgs[k]) \o Concatenated(bgs, k + 1)
\* p is the sequence of first occurrences of raw
IsFirstOccurrences(p, raw) ==
    /\ NoDuplicates(p)
    /\ Elements(p) = Elements(raw)
    /\ \A a, b \in 1..Len(p) : a < b => FirstIndex(raw, p[a]) < FirstIndex(raw, p[b])

(***************************************************************************)
(* C1: in every reachable state of the applet, after any sequence of       *)
(* messages, the stored palette colors holds no two equal colours.         *)
(***************************************************************************)
C1_PaletteHasNoDuplicates == NoDuplicates(colors)

C1_Witness ==
    /\ Recomputed
    /\ Len(backgrounds) = 1
    /\ backgrounds[1].source = GradientSource(<<Blue, Blue>>)
    /\ colors = <<Blue>>

(***************************************************************************)
(* C6: a wallpaper whose image fails to load contributes nothing and       *)
(* aborts nothing: the recomputation completes and the palette is the      *)
(* first occurrences of the other wallpapers' contributions, in order.     *)
(***************************************************************************)
C6_FailedImageIsSkipped ==
    (last \in {"ConfigUpdate", "ThemeModeUpdate"} /\ backgrounds # <<>>) =>
        LET failed == {k \in 1..Len(backgrounds) : FailsToLoad(backgrounds[k])}
            others == Without(backgrounds, 1, failed)
        IN  /\ crashed = "none"
            /\ \A k \in failed : Contribution(backgrounds[k]) = <<>>
            /\ IsFirstOccurrences(colors, Concatenated(others, 1))

C6_Witness ==
    /\ Recomputed
    /\ Len(backgrounds) = 2
    /\ FailsToLoad(backgrounds[1])
    /\ backgrounds[2].source = SingleSource(Red)
    /\ colors = SingleColors(Red)

(***************************************************************************)
(* C7: no failure during a palette recomputation (update_bg run by         *)
(* ConfigUpdate or ThemeModeUpdate) crashes the applet: a failure to get   *)
(* the background-config context, to load the background config or to      *)
(* write an entry leaves the applet running.                               *)
(***************************************************************************)
C7_RecomputationNeverCrashes ==
    last \in {"ConfigUpdate", "ThemeModeUpdate"} => crashed = "none"

(***************************************************************************)
(* C8: once a palette has been computed, after handling a ThemeModeUpdate  *)
(* or a wallpaper-config change notification (BgUpdate) that did not       *)
(* panic, colors is the full palette of the background configuration       *)
(* current at that moment.                                                 *)
(***************************************************************************)
C8_RecomputedOnEveryChange ==
    (last \in {"ThemeModeUpdate", "BgUpdate"} /\ crashed = "none"
        /\ backgrounds # <<>>) =>
        IsFirstOccurrences(colors, Concatenated(BackgroundsOf(bgStore), 1))

(***************************************************************************)
(* Helpers of the properties of update_bg's writes.                        *)
(***************************************************************************)
\* the outputs the background configuration cfg has an entry for
OutputsOf(cfg) == {"all"} \cup {cfg.backgrounds[k].output : k \in 1..Len(cfg.backgrounds)}
\* the entry cfg holds for output o
EntryAt(cfg, o) ==
    IF o = "all" THEN cfg.default_background
    ELSE cfg.backgrounds[CHOOSE k \in 1..Len(cfg.backgrounds) :
                            cfg.backgrounds[k].output = o]
IsPrefix(p, s) == Len(p) <= Len(s) /\ \A k \in 1..Len(p) : p[k] = s[k]
\* the last element of ws written for output o
LastWriteFor(ws, o) ==
    ws[CHOOSE k \in 1..Len(ws) :
          ws[k].output = o /\ \A j \in (k + 1)..Len(ws) : ws[j].output # o]

\* update_bg(is_dark), called with self.config = cfg, took this step
UpdateBgWrote(cfg, is_dark) ==
    LET stored == IF is_dark THEN cfg.dark ELSE cfg.light
        named  == {writes'[k].output : k \in 1..Len(writes')}
    IN  /\ ~cfg.enabled => writes' = <<>> /\ bgStore' = bgStore
        /\ cfg.enabled =>
              /\ IsPrefix(writes', stored)
              /\ crashed' = "none" => writes' = stored
        \* the background configuration changes by these writes and nothing else
        /\ bgStore'.same_on_all = bgStore.same_on_all
        /\ OutputsOf(bgStore') = OutputsOf(bgStore) \cup named
        /\ \A o \in OutputsOf(bgStore') :
              EntryAt(bgStore', o) = IF o \in named THEN LastWriteFor(writes', o)
                                     ELSE EntryAt(bgStore, o)
        \* the applet's own configuration is not touched
        /\ appStore' = appStore
        /\ crashed' = "none" => config' = cfg

(***************************************************************************)
(* C11: update_bg(is_dark) hands entries to set_entry only when            *)
(* config.enabled is true, and then exactly the stored entries of the      *)
(* requested mode (config.dark if is_dark, else config.light), in stored   *)
(* order; when config.enabled is false it writes no entry and the          *)
(* background configuration stays as it was.  In both cases config.enabled,*)
(* config.dark and config.light are left unchanged.  (ThemeModeUpdate      *)
(* calls it with the mode of the message on self.config; ConfigUpdate      *)
(* calls it with the core's mode after self.config took the message.)      *)
(***************************************************************************)
C11_WritesOnlyEnabledEntries ==
    [][/\ last' = "ThemeModeUpdate" => UpdateBgWrote(config, Head(qTheme))
       /\ last' = "ConfigUpdate" => UpdateBgWrote(Head(qConfig), coreDark)]_vars

C11_Witness ==
    /\ last = "ThemeModeUpdate" /\ crashed = "none"
    /\ config.enabled /\ Len(writes) = 2
    /\ writes = config.light /\ writes # config.dark

(***************************************************************************)
(* C12: handling BgUpdate(entries) changes at most the stored entry list   *)
(* of the mode the core reports (config.dark in dark mode, config.light in *)
(* light mode), and only to entries: it never changes the other mode's     *)
(* list, config.enabled, the popup or the palette (nor the background      *)
(* configuration); and when entries is empty, or equals the active mode's  *)
(* stored list, nothing is written at all: no field, no stored key, no     *)
(* ConfigUpdate caused, no unwrap() reached.                               *)
(***************************************************************************)
C12_BgUpdateFrame ==
    [][last' = "BgUpdate" =>
          LET entries == Head(qBg).entries
              active  == IF coreDark THEN config.dark ELSE config.light
          IN  /\ bgStore' = bgStore
              /\ appStore'.enabled = appStore.enabled
              /\ coreDark => appStore'.light = appStore.light
                             /\ appStore'.dark \in {appStore.dark, entries}
              /\ ~coreDark => appStore'.dark = appStore.dark
                              /\ appStore'.light \in {appStore.light, entries}
              /\ crashed' = "none" =>
                    /\ config'.enabled = config.enabled
                    /\ popup' = popup /\ colors' = colors
                    /\ coreDark => config'.light = config.light
                                   /\ config'.dark \in {config.dark, entries}
                    /\ ~coreDark => config'.dark = config.dark
                                    /\ config'.light \in {config.light, entries}
              /\ (entries = <<>> \/ entries = active) =>
                    /\ crashed' = "none"
                    /\ config' = config /\ appStore' = appStore
                    /\ qConfig' = qConfig]_vars

C12_Witness ==
    /\ last = "BgUpdate" /\ crashed = "none"
    /\ coreDark /\ themeStore # coreDark
    /\ config.enabled /\ colors # <<>> /\ config.light # <<>>
    /\ qConfig # <<>> /\ qConfig[Len(qConfig)] = config
    /\ config.dark = BgOf(bgStore)

(***************************************************************************)
(* C13: with config.enabled true, under every interleaving of theme-mode   *)
(* changes and BgUpdate deliveries, a BgUpdate that carries the background *)
(* configuration as update_bg wrote it for dark mode is never stored into  *)
(* config.light, and one written for light mode is never stored into       *)
(* config.dark.                                                            *)
(***************************************************************************)
C13_ModesNeverCrossed ==
    [][(last' = "BgUpdate" /\ config.enabled) =>
          /\ appStore'.light # appStore.light => Head(qBg).by # "dark"
          /\ appStore'.dark # appStore.dark => Head(qBg).by # "light"]_vars

(***************************************************************************)
(* Helpers of the properties of the watcher feedback cycle.                *)
(***************************************************************************)
\* no message of a watcher is waiting: every write of the applet leaves one
\* waiting, so the applet has stopped writing exactly when this stays true
Quiescent == qConfig = <<>> /\ qBg = <<>> /\ qTheme = <<>> /\ qCore = <<>>

(***************************************************************************)
(* C14: the cycle BgUpdate -> set_dark/set_light -> ConfigUpdate ->        *)
(* update_bg -> background-config write -> BgUpdate reaches quiescence:    *)
(* with the (finitely many) outside changes over and every message         *)
(* delivered, only finitely many writes occur; from some moment on the     *)
(* applet writes nothing and no notification is waiting.                   *)
(***************************************************************************)
C14_ReachesQuiescence == <>[]Quiescent

(***************************************************************************)
(* C15: after a recomputation the palette comes from exactly one wallpaper *)
(* set, chosen by same_on_all of the background configuration: with        *)
(* same_on_all set it is the first occurrences of the default background's *)
(* contribution alone; otherwise it is the first occurrences of the        *)
(* concatenated contributions of the per-output backgrounds in stored      *)
(* order, and the default background contributes nothing.                  *)
(***************************************************************************)
C15_OneWallpaperSet ==
    Recomputed =>
        /\ bgStore.same_on_all =>
              /\ backgrounds = <<bgStore.default_background>>
              /\ IsFirstOccurrences(colors, Contribution(bgStore.default_background))
        /\ ~bgStore.same_on_all =>
              /\ backgrounds = bgStore.backgrounds
              /\ IsFirstOccurrences(colors, Concatenated(bgStore.backgrounds, 1))

\* per-output backgrounds chosen: the default background's colours (blue) are
\* not in the palette, those of the outputs are
C15_Witness ==
    /\ Recomputed /\ ~bgStore.same_on_all
    /\ bgStore.default_background.source = GradientSource(<<Blue, Blue>>)
    /\ Len(bgStore.backgrounds) = 2
    /\ colors # <<>> /\ ~Contains(colors, Blue)

(***************************************************************************)
(* C16: at most one popup is tracked and its identity is never confused.   *)
(* TogglePopup with no popup tracked records a fresh id (one never handed  *)
(* out before, and not the main window's); TogglePopup with a popup        *)
(* tracked clears the id; PopupClosed(id) clears the tracked id only when  *)
(* id equals it, so a PopupClosed carrying a stale id (of a popup already  *)
(* toggled away) leaves a newer tracked popup unchanged.                   *)
(***************************************************************************)
C16_PopupIdentity ==
    [][/\ last' = "TogglePopup" =>
             IF popup = 0
             THEN popup' # 0 /\ popup' # 1 /\ popup' >= nextId /\ popup' < nextId'
             ELSE popup' = 0 /\ nextId' = nextId
       /\ last' = "PopupClosed" =>
             /\ nextId' = nextId
             /\ closed' = popup => popup' = 0
             /\ closed' # popup => popup' = popup]_vars

\* a popup was opened and toggled away, a second one opened, and the close of
\* the first arrived: the second is still tracked
C16_Witness ==
    /\ last = "PopupClosed" /\ crashed = "none"
    /\ popup # 0 /\ closed > 1 /\ closed < popup

====
